---- MODULE Spec2Model ----
(***************************************************************************)
(* Model of the skipper routing core (routing/routing.go): the atomically  *)
(* readable route-table cell, the goroutine that applies the tables coming *)
(* from the update pipeline, the lookup API (Route, Get, RouteLookup.Do),  *)
(* Close, and the introspection endpoint ServeHTTP.                        *)
(***************************************************************************)
EXTENDS Integers, Sequences, FiniteSets, TLC

\* ------------------------------------------------------------------ bounds
\* Number of route tables the update pipeline builds in one behaviour.
MaxGen == 2
\* Latest creation instant a table can get, in half seconds.
MaxTime == 2

\* ------------------------------------------------------ values of the model
\* time.Time instants, in half seconds since the Unix epoch.
Times == 0..MaxTime

\* The route definitions the data clients can deliver, and the path each one
\* matches (a Path predicate).
RouteIds == {"r1", "r2"}

RoutePath(id) == IF id = "r1" THEN "/a" ELSE "/b"

\* The lists of valid routes a built table can carry.
RouteLists == {<<"r1">>, <<"r2", "r1">>}

\* Request paths used in lookups.
Requests == {"/a", "/b"}

\* The nil *Route of a lookup without match.
NoRoute == "nil"

\* A Go slice: nil, or a (possibly empty) list of elements.
NilSlice == [isNil |-> TRUE, elems |-> << >>]

GoSlice(elems) == [isNil |-> FALSE, elems |-> elems]

len(r) == Len(r.elems)

\* The zero atomic.Value: nothing stored yet.
NoTable == [gen |-> -1, created |-> 0, m |-> << >>, validRoutes |-> NilSlice]

\* A RouteLookup that was never obtained.
NoHandle == [held |-> FALSE, matcher |-> << >>]

\* The reads time.Now().UTC() can return after a read of t: the clock does
\* not run backwards.
Now(t) == {u \in Times : u >= t}

\* time.Time.Unix(): the whole seconds of an instant.
Unix(t) == t \div 2

\* matcher.match: the first route, in table order, whose path predicate
\* accepts the request; no match when there is none.
RECURSIVE match(_, _)
match(m, req) ==
    IF m = << >> THEN NoRoute
    ELSE IF RoutePath(Head(m)) = req THEN Head(m)
    ELSE match(Tail(m), req)

\* newMatcher(routes): the matcher over the given valid routes.
newMatcher(routes) == routes

\* &routeTable{m, created, validRoutes}; gen is the identity of the object.
MakeTable(g, routes, t) ==
    [gen |-> g, created |-> t, m |-> newMatcher(routes),
     validRoutes |-> GoSlice(routes)]

\* New's &routeTable{m: initialMatcher, created: ...}: validRoutes is left nil.
InitialTable(t) ==
    [gen |-> 0, created |-> t, m |-> newMatcher(<< >>), validRoutes |-> NilSlice]

\* ------------------------------------------------------- ints and strings
\* Width of Go's int, scaled down; 1024 (the default limit) fits.
IntBits == 12

MaxInt == 2 ^ (IntBits - 1) - 1

MinInt == 0 - 2 ^ (IntBits - 1)

\* Two's complement wrap-around of int arithmetic.
WrapInt(x) == ((x - MinInt) % (2 ^ IntBits)) + MinInt

\* Strings are sequences of characters.
Digits == <<"0", "1", "2", "3", "4", "5", "6", "7", "8", "9">>

IsDigit(ch) == \E i \in 1..10 : Digits[i] = ch

DigitVal(ch) == (CHOOSE i \in 1..10 : Digits[i] = ch) - 1

\* strconv.FormatInt(n, 10) and strconv.Itoa(n).
RECURSIVE FormatInt(_)
FormatInt(n) ==
    IF n < 0 THEN <<"-">> \o FormatInt(0 - n)
    ELSE IF n < 10 THEN <<Digits[n + 1]>>
    ELSE FormatInt(n \div 10) \o <<Digits[(n % 10) + 1]>>

\* The value of a string of digits.
RECURSIVE DigitsVal(_)
DigitsVal(str) ==
    IF str = << >> THEN 0
    ELSE 10 * DigitsVal(SubSeq(str, 1, Len(str) - 1)) + DigitVal(str[Len(str)])

\* strconv.Atoi: an optional sign and at least one digit, within the range
\* of int; anything else is an error.
Atoi(str) ==
    LET signed == str # << >> /\ str[1] \in {"+", "-"}
        body == IF signed THEN Tail(str) ELSE str
        wellFormed == body # << >> /\ \A i \in 1..Len(body) : IsDigit(body[i])
        val == IF signed /\ str[1] = "-" THEN 0 - DigitsVal(body) ELSE DigitsVal(body)
    IN  IF wellFormed /\ val >= MinInt /\ val <= MaxInt
          THEN [err |-> FALSE, val |-> val]
          ELSE [err |-> TRUE, val |-> 0]

\* defaultRouteListingLimit
defaultRouteListingLimit == 1024

\* extractParam: the default for an absent or empty parameter, an error for
\* one that is no integer or is negative.
extractParam(param, defaultValue) ==
    IF param = << >> THEN [err |-> FALSE, val |-> defaultValue]
    ELSE LET a == Atoi(param)
         IN  IF a.err THEN [err |-> TRUE, val |-> 0]
             ELSE IF a.val < 0 THEN [err |-> TRUE, val |-> 0]
             ELSE [err |-> FALSE, val |-> a.val]

\* slice: the page r[offset:end]; the slice expression panics when its
\* bounds are out of order.
slice(r, offset, limit) ==
    LET off == IF offset > len(r) THEN len(r) ELSE offset
        sum == WrapInt(off + limit)
        end == IF sum > len(r) THEN len(r) ELSE sum
    IN  IF end < off
          THEN [panic |-> TRUE, page |-> NilSlice]
          ELSE LET res == [isNil |-> r.isNil, elems |-> SubSeq(r.elems, off + 1, end)]
               IN  [panic |-> FALSE,
                    page |-> IF res.isNil THEN GoSlice(<< >>) ELSE res]

VARIABLES
    constructed,   \* New has returned
    routeTable,    \* Routing.routeTable, the atomic cell
    quit,          \* Routing.quit: "open" or "closed"
    panicked,      \* a call of Close panicked
    prodPc,        \* receiveRouteMatcher: "none", "idle", "send", "done"
    prodRt,        \* the table receiveRouteMatcher offers on c
    built,         \* tables built so far
    applyPc,       \* the applying goroutine: "none", "select", "store", "done"
    applyRt,       \* rt received from c
    handed,        \* history: gens received from c, in order
    published,     \* history: gens stored into the cell, in order
    clock,         \* the last reading of the clock
    rdObs,         \* reader: gen of the table its last load of the cell gave
    handle,        \* reader: the RouteLookup returned by Get
    pinned,        \* history: what Route answered, per request, when Get loaded
    result,        \* reader: outcome of the last lookup
    httpPc,        \* ServeHTTP: "idle" or "loaded" (past its load of the cell)
    httpReq,       \* ServeHTTP: the request being served
    httpRt,        \* ServeHTTP: rt, the table it loaded
    resp,          \* the last response of ServeHTTP
    earlier,       \* history: timestamp and table of an earlier 200 to a GET
    flow,          \* the flow id filter and the request it works on
    plug,          \* findAndLoadPlugins: its position, Options and found map
    lastAct        \* history: the operation that took the last step

vars == <<constructed, routeTable, quit, panicked, prodPc, prodRt, built,
          applyPc, applyRt, handed, published, clock, rdObs, handle, pinned,
          result, httpPc, httpReq, httpRt, resp, earlier, flow, plug, lastAct>>

\* The state of the routing package.
routingVars == <<constructed, routeTable, quit, panicked, prodPc, prodRt,
                 built, applyPc, applyRt, handed, published, clock, rdObs,
                 handle, pinned, result, httpPc, httpReq, httpRt, resp,
                 earlier>>

pipeVars == <<prodPc, prodRt, built, applyPc, applyRt, handed>>
readerVars == <<rdObs, handle, pinned, result>>
closeVars == <<quit, panicked>>
httpVars == <<httpPc, httpReq, httpRt, resp, earlier>>

\* No generation: the reader has not loaded the cell yet.
NoGen == -1

NoResult == [req |-> "", route |-> NoRoute]

\* What Routing.Route answers from table rt, request by request.
Answers(rt) == [req \in Requests |-> match(rt.m, req)]

NoAnswers == [req \in Requests |-> NoRoute]

\* An http.Request to the introspection endpoint: the method, the query
\* parameters timestamp, offset and limit (empty when absent), and whether
\* Accept contains application/json.
HttpRequest(method, ts, offset, limit, json) ==
    [method |-> method, ts |-> ts, offset |-> offset, limit |-> limit,
     json |-> json]

NoRequest == HttpRequest("", << >>, << >>, << >>, FALSE)

\* What the ResponseWriter has got: the status, the X-Timestamp and X-Count
\* headers (empty when not set), the Content-Type, whether a route listing
\* was written and its routes; from is the table the handler had loaded.
Response(status, xTimestamp, xCount, contentType, listing, page, from) ==
    [status |-> status, xTimestamp |-> xTimestamp, xCount |-> xCount,
     contentType |-> contentType, listing |-> listing, page |-> page,
     from |-> from]

NoResponse == Response(0, << >>, << >>, "", FALSE, NilSlice, NoTable)

\* No 200 to a GET with a timestamp parameter has been given yet.
NoEarlier == [ts |-> << >>, gen |-> NoGen]

\* The record of response r to request req, when it is a 200 to a GET that
\* carried a timestamp; else the record kept so far.
Remember(req, r, kept) ==
    IF r.status = 200 /\ req.method = "GET" /\ req.ts # << >>
      THEN [ts |-> req.ts, gen |-> r.from.gen]
      ELSE kept

\* Content-Type by content negotiation.
ContentType(req) == IF req.json THEN "application/json" ELSE "text/plain"

\* The response without the check of the timestamp parameter.
RenderAnyTimestamp(req, rt) ==
    LET createdUnix == FormatInt(Unix(rt.created))
        count == FormatInt(len(rt.validRoutes))
        offset == extractParam(req.offset, 0)
        limit == extractParam(req.limit, defaultRouteListingLimit)
        routes == slice(rt.validRoutes, offset.val, limit.val)
    IN  IF req.method = "HEAD"
          THEN Response(200, createdUnix, count, ContentType(req), FALSE,
                        NilSlice, rt)
        ELSE IF offset.err
          THEN Response(400, << >>, << >>, "text/plain", FALSE, NilSlice, rt)
        ELSE IF limit.err
          THEN Response(400, << >>, << >>, "text/plain", FALSE, NilSlice, rt)
        ELSE IF routes.panic
          THEN Response(-1, createdUnix, count, "", FALSE, NilSlice, rt)
        ELSE Response(200, createdUnix, count, ContentType(req), TRUE,
                      routes.page, rt)

\* The response with X-Count taken from a second load of the cell.
RenderReload(req, rt) ==
    LET createdUnix == FormatInt(Unix(rt.created))
        count == FormatInt(len(routeTable.validRoutes))
        offset == extractParam(req.offset, 0)
        limit == extractParam(req.limit, defaultRouteListingLimit)
        routes == slice(rt.validRoutes, offset.val, limit.val)
    IN  IF req.ts # << >> /\ createdUnix # req.ts
          THEN Response(400, << >>, << >>, "text/plain", FALSE, NilSlice, rt)
        ELSE IF req.method = "HEAD"
          THEN Response(200, createdUnix, count, ContentType(req), FALSE,
                        NilSlice, rt)
        ELSE IF offset.err
          THEN Response(400, << >>, << >>, "text/plain", FALSE, NilSlice, rt)
        ELSE IF limit.err
          THEN Response(400, << >>, << >>, "text/plain", FALSE, NilSlice, rt)
        ELSE IF routes.panic
          THEN Response(-1, createdUnix, count, "", FALSE, NilSlice, rt)
        ELSE Response(200, createdUnix, count, ContentType(req), TRUE,
                      routes.page, rt)

\* ServeHTTP after its load of the cell: the response for req from table rt.
\* A panic of the slice expression leaves no response (status -1 stands for
\* it).  The encoding of the listing (JSON or eskip text, nopretty) is not
\* modelled: the listing is the page of routes.
Render(req, rt) ==
    LET createdUnix == FormatInt(Unix(rt.created))
        count == FormatInt(len(rt.validRoutes))
        offset == extractParam(req.offset, 0)
        limit == extractParam(req.limit, defaultRouteListingLimit)
        routes == slice(rt.validRoutes, offset.val, limit.val)
    IN  IF req.ts # << >> /\ createdUnix # req.ts
          THEN Response(400, << >>, << >>, "text/plain", FALSE, NilSlice, rt)
        ELSE IF req.method = "HEAD"
          THEN Response(200, createdUnix, count, ContentType(req), FALSE,
                        NilSlice, rt)
        ELSE IF offset.err
          THEN Response(400, << >>, << >>, "text/plain", FALSE, NilSlice, rt)
        ELSE IF limit.err
          THEN Response(400, << >>, << >>, "text/plain", FALSE, NilSlice, rt)
        ELSE IF routes.panic
          THEN Response(-1, createdUnix, count, "", FALSE, NilSlice, rt)
        ELSE Response(200, createdUnix, count, ContentType(req), TRUE,
                      routes.page, rt)

\* No flow id filter at work.
NoFlow == [pc |-> "none", reuse |-> FALSE, length |-> 0, incoming |-> << >>,
           header |-> << >>]

\* findAndLoadPlugins not called.
NoPlug == [pc |-> "none"]

\* Nothing of the routing package is constructed or running.
RoutingInit ==
    /\ constructed = FALSE
    /\ routeTable = NoTable
    /\ quit = "open"
    /\ panicked = FALSE
    /\ prodPc = "none"
    /\ prodRt = NoTable
    /\ built = 0
    /\ applyPc = "none"
    /\ applyRt = NoTable
    /\ handed = << >>
    /\ published = << >>
    /\ clock = 0
    /\ rdObs = NoGen
    /\ handle = NoHandle
    /\ pinned = NoAnswers
    /\ result = NoResult
    /\ httpPc = "idle"
    /\ httpReq = NoRequest
    /\ httpRt = NoTable
    /\ resp = NoResponse
    /\ earlier = NoEarlier
    /\ lastAct = "init"

Init ==
    /\ RoutingInit
    /\ flow = NoFlow
    /\ plug = NoPlug

\* New without its initial Store: the cell stays unset.
NewNoStore ==
    /\ ~constructed
    /\ \E t \in Now(clock) : clock' = t
    /\ published' = Append(published, 0)
    /\ prodPc' = "idle"
    /\ applyPc' = "select"
    /\ constructed' = TRUE
    /\ lastAct' = "New"
    /\ UNCHANGED <<flow, plug>>
    /\ UNCHANGED <<routeTable, prodRt, built, applyRt, handed>>
    /\ UNCHANGED <<rdObs, handle, pinned, result>>
    /\ UNCHANGED <<quit, panicked>>
    /\ UNCHANGED <<httpPc, httpReq, httpRt, resp, earlier>>

\* ------------------------------------------------------------------- New
\* New: store the table of the empty matcher, then start the goroutines.
New ==
    /\ ~constructed
    /\ \E t \in Now(clock) :
         /\ routeTable' = InitialTable(t)
         /\ clock' = t
    /\ published' = Append(published, 0)
    /\ prodPc' = "idle"
    /\ applyPc' = "select"
    /\ constructed' = TRUE
    /\ lastAct' = "New"
    /\ UNCHANGED <<flow, plug>>
    /\ UNCHANGED <<prodRt, built, applyRt, handed>>
    /\ UNCHANGED readerVars
    /\ UNCHANGED closeVars
    /\ UNCHANGED httpVars

\* ------------------------------------------------- the update pipeline
\* receiveRouteMatcher: build the next table from the data clients' routes.
ProdBuild ==
    /\ prodPc = "idle"
    /\ built < MaxGen
    /\ \E routes \in RouteLists, t \in Now(clock) :
         /\ prodRt' = MakeTable(built + 1, routes, t)
         /\ clock' = t
    /\ built' = built + 1
    /\ prodPc' = "send"
    /\ lastAct' = "ProdBuild"
    /\ UNCHANGED <<flow, plug>>
    /\ UNCHANGED <<constructed, routeTable, applyPc, applyRt, handed, published>>
    /\ UNCHANGED readerVars
    /\ UNCHANGED closeVars
    /\ UNCHANGED httpVars

\* receiveRouteMatcher: the quit case of its select.
ProdQuit ==
    /\ prodPc \in {"idle", "send"}
    /\ quit = "closed"
    /\ prodPc' = "done"
    /\ lastAct' = "ProdQuit"
    /\ UNCHANGED <<flow, plug>>
    /\ UNCHANGED <<constructed, routeTable, prodRt, built, applyPc, applyRt,
                   handed, published, clock>>
    /\ UNCHANGED readerVars
    /\ UNCHANGED closeVars
    /\ UNCHANGED httpVars

\* case rt := <-c: the rendezvous on the unbuffered channel c.
ApplyRecv ==
    /\ applyPc = "select"
    /\ prodPc = "send"
    /\ applyRt' = prodRt
    /\ applyPc' = "store"
    /\ prodPc' = "idle"
    /\ prodRt' = NoTable
    /\ handed' = Append(handed, prodRt.gen)
    /\ lastAct' = "ApplyRecv"
    /\ UNCHANGED <<flow, plug>>
    /\ UNCHANGED <<constructed, routeTable, built, published, clock>>
    /\ UNCHANGED readerVars
    /\ UNCHANGED closeVars
    /\ UNCHANGED httpVars

\* The Store putting the empty initial table back once quit is closed.
ApplyStoreStale ==
    /\ applyPc = "store"
    /\ IF quit = "closed"
         THEN /\ routeTable' = InitialTable(0)
              /\ published' = Append(published, 0)
         ELSE /\ routeTable' = applyRt
              /\ published' = Append(published, applyRt.gen)
    /\ applyRt' = NoTable
    /\ applyPc' = "select"
    /\ lastAct' = "ApplyStore"
    /\ UNCHANGED <<flow, plug>>
    /\ UNCHANGED <<constructed, prodPc, prodRt, built, handed, clock>>
    /\ UNCHANGED <<rdObs, handle, pinned, result>>
    /\ UNCHANGED <<quit, panicked>>
    /\ UNCHANGED <<httpPc, httpReq, httpRt, resp, earlier>>

\* The Store skipped once quit is closed: a received table is dropped.
ApplyStoreUnlessQuit ==
    /\ applyPc = "store"
    /\ IF quit = "closed"
         THEN UNCHANGED <<routeTable, published>>
         ELSE /\ routeTable' = applyRt
              /\ published' = Append(published, applyRt.gen)
    /\ applyRt' = NoTable
    /\ applyPc' = "select"
    /\ lastAct' = "ApplyStore"
    /\ UNCHANGED <<flow, plug>>
    /\ UNCHANGED <<constructed, prodPc, prodRt, built, handed, clock>>
    /\ UNCHANGED <<rdObs, handle, pinned, result>>
    /\ UNCHANGED <<quit, panicked>>
    /\ UNCHANGED <<httpPc, httpReq, httpRt, resp, earlier>>

\* r.routeTable.Store(rt); r.log.Info(...); back to the select.
ApplyStore ==
    /\ applyPc = "store"
    /\ routeTable' = applyRt
    /\ published' = Append(published, applyRt.gen)
    /\ applyRt' = NoTable
    /\ applyPc' = "select"
    /\ lastAct' = "ApplyStore"
    /\ UNCHANGED <<flow, plug>>
    /\ UNCHANGED <<constructed, prodPc, prodRt, built, handed, clock>>
    /\ UNCHANGED readerVars
    /\ UNCHANGED closeVars
    /\ UNCHANGED httpVars

\* The quit case leaving the select only (break) and not the loop.
ApplyQuitBreak ==
    /\ applyPc = "select"
    /\ quit = "closed"
    /\ applyPc' = "select"
    /\ lastAct' = "ApplyQuit"
    /\ UNCHANGED <<flow, plug>>
    /\ UNCHANGED <<constructed, routeTable, prodPc, prodRt, built, applyRt,
                   handed, published, clock>>
    /\ UNCHANGED <<rdObs, handle, pinned, result>>
    /\ UNCHANGED <<quit, panicked>>
    /\ UNCHANGED <<httpPc, httpReq, httpRt, resp, earlier>>

\* case <-r.quit: return.
ApplyQuit ==
    /\ applyPc = "select"
    /\ quit = "closed"
    /\ applyPc' = "done"
    /\ lastAct' = "ApplyQuit"
    /\ UNCHANGED <<flow, plug>>
    /\ UNCHANGED <<constructed, routeTable, prodPc, prodRt, built, applyRt,
                   handed, published, clock>>
    /\ UNCHANGED readerVars
    /\ UNCHANGED closeVars
    /\ UNCHANGED httpVars

\* Close that does nothing when quit is closed already.
CloseOnce ==
    /\ constructed
    /\ IF quit = "closed"
         THEN panicked' = panicked /\ quit' = quit
         ELSE quit' = "closed" /\ panicked' = panicked
    /\ lastAct' = "Close"
    /\ UNCHANGED <<flow, plug>>
    /\ UNCHANGED <<constructed, routeTable, published, clock>>
    /\ UNCHANGED <<prodPc, prodRt, built, applyPc, applyRt, handed>>
    /\ UNCHANGED <<rdObs, handle, pinned, result>>
    /\ UNCHANGED <<httpPc, httpReq, httpRt, resp, earlier>>

\* Close that also resets the cell to an empty table.
CloseReset ==
    /\ constructed
    /\ IF quit = "closed"
         THEN panicked' = TRUE /\ quit' = quit
         ELSE quit' = "closed" /\ panicked' = panicked
    /\ routeTable' = InitialTable(clock)
    /\ lastAct' = "Close"
    /\ UNCHANGED <<flow, plug>>
    /\ UNCHANGED <<constructed, published, clock>>
    /\ UNCHANGED <<prodPc, prodRt, built, applyPc, applyRt, handed>>
    /\ UNCHANGED <<rdObs, handle, pinned, result>>
    /\ UNCHANGED <<httpPc, httpReq, httpRt, resp, earlier>>

\* ----------------------------------------------------------------- Close
\* close(r.quit): closing a closed channel panics.
Close ==
    /\ constructed
    /\ IF quit = "closed"
         THEN panicked' = TRUE /\ quit' = quit
         ELSE quit' = "closed" /\ panicked' = panicked
    /\ lastAct' = "Close"
    /\ UNCHANGED <<flow, plug>>
    /\ UNCHANGED <<constructed, routeTable, published, clock>>
    /\ UNCHANGED pipeVars
    /\ UNCHANGED readerVars
    /\ UNCHANGED httpVars

\* --------------------------------------------------------------- lookups
\* Route taking a lock the applying goroutine holds around its Store.
RouteLocked(req) ==
    /\ constructed
    /\ applyPc # "store"
    /\ rdObs' = routeTable.gen
    /\ result' = [req |-> req, route |-> match(routeTable.m, req)]
    /\ lastAct' = "Route"
    /\ UNCHANGED <<flow, plug>>
    /\ UNCHANGED <<constructed, routeTable, published, clock, handle, pinned>>
    /\ UNCHANGED <<prodPc, prodRt, built, applyPc, applyRt, handed>>
    /\ UNCHANGED <<quit, panicked>>
    /\ UNCHANGED <<httpPc, httpReq, httpRt, resp, earlier>>

\* Routing.Route: load the cell, match in the loaded table.
Route(req) ==
    /\ constructed
    /\ rdObs' = routeTable.gen
    /\ result' = [req |-> req, route |-> match(routeTable.m, req)]
    /\ lastAct' = "Route"
    /\ UNCHANGED <<flow, plug>>
    /\ UNCHANGED <<constructed, routeTable, published, clock, handle, pinned>>
    /\ UNCHANGED pipeVars
    /\ UNCHANGED closeVars
    /\ UNCHANGED httpVars

\* Routing.Get: load the cell, capture the matcher of the loaded table.
Get ==
    /\ constructed
    /\ rdObs' = routeTable.gen
    /\ handle' = [held |-> TRUE, matcher |-> routeTable.m]
    /\ pinned' = Answers(routeTable)
    /\ lastAct' = "Get"
    /\ UNCHANGED <<flow, plug>>
    /\ UNCHANGED <<constructed, routeTable, published, clock, result>>
    /\ UNCHANGED pipeVars
    /\ UNCHANGED closeVars
    /\ UNCHANGED httpVars

\* Do matching in the table current at the call, not in the captured one.
DoCurrent(req) ==
    /\ handle.held
    /\ result' = [req |-> req, route |-> match(routeTable.m, req)]
    /\ lastAct' = "Do"
    /\ UNCHANGED <<flow, plug>>
    /\ UNCHANGED <<constructed, routeTable, published, clock, rdObs, handle, pinned>>
    /\ UNCHANGED <<prodPc, prodRt, built, applyPc, applyRt, handed>>
    /\ UNCHANGED <<quit, panicked>>
    /\ UNCHANGED <<httpPc, httpReq, httpRt, resp, earlier>>

\* RouteLookup.Do: match in the captured matcher.
Do(req) ==
    /\ handle.held
    /\ result' = [req |-> req, route |-> match(handle.matcher, req)]
    /\ lastAct' = "Do"
    /\ UNCHANGED <<flow, plug>>
    /\ UNCHANGED <<constructed, routeTable, published, clock, rdObs, handle, pinned>>
    /\ UNCHANGED pipeVars
    /\ UNCHANGED closeVars
    /\ UNCHANGED httpVars

\* ------------------------------------------------------------- ServeHTTP
\* ServeHTTP refusing POST only: any other method is served like GET.
ServeHTTPRefusePost(req) ==
    /\ constructed
    /\ httpPc = "idle"
    /\ httpReq' = req
    /\ earlier' = Remember(httpReq, resp, earlier)
    /\ IF req.method = "POST"
         THEN /\ resp' = Response(405, << >>, << >>, "", FALSE, NilSlice, NoTable)
              /\ UNCHANGED <<httpPc, httpRt, rdObs>>
         ELSE /\ httpRt' = routeTable
              /\ rdObs' = routeTable.gen
              /\ httpPc' = "loaded"
              /\ resp' = NoResponse
    /\ lastAct' = "ServeHTTP"
    /\ UNCHANGED <<flow, plug>>
    /\ UNCHANGED <<constructed, routeTable, published, clock, handle, pinned,
                   result>>
    /\ UNCHANGED <<prodPc, prodRt, built, applyPc, applyRt, handed>>
    /\ UNCHANGED <<quit, panicked>>

\* ServeHTTP up to and including its load of the cell: 405 for a method
\* other than GET and HEAD, else rt := r.routeTable.Load().
ServeHTTP(req) ==
    /\ constructed
    /\ httpPc = "idle"
    /\ httpReq' = req
    /\ earlier' = Remember(httpReq, resp, earlier)
    /\ IF req.method # "GET" /\ req.method # "HEAD"
         THEN /\ resp' = Response(405, << >>, << >>, "", FALSE, NilSlice, NoTable)
              /\ UNCHANGED <<httpPc, httpRt, rdObs>>
         ELSE /\ httpRt' = routeTable
              /\ rdObs' = routeTable.gen
              /\ httpPc' = "loaded"
              /\ resp' = NoResponse
    /\ lastAct' = "ServeHTTP"
    /\ UNCHANGED <<flow, plug>>
    /\ UNCHANGED <<constructed, routeTable, published, clock, handle, pinned,
                   result>>
    /\ UNCHANGED pipeVars
    /\ UNCHANGED closeVars

\* The rest of ServeHTTP: everything it writes comes from the loaded rt.
ServeHTTPRespond ==
    /\ httpPc = "loaded"
    /\ resp' = Render(httpReq, httpRt)
    /\ httpRt' = NoTable
    /\ httpPc' = "idle"
    /\ lastAct' = "ServeHTTPRespond"
    /\ UNCHANGED <<flow, plug>>
    /\ UNCHANGED <<constructed, routeTable, published, clock, httpReq, earlier>>
    /\ UNCHANGED pipeVars
    /\ UNCHANGED readerVars
    /\ UNCHANGED closeVars

\* The requests made to the introspection endpoint: the methods, the values
\* of timestamp, and the pairs of offset and limit.
HttpMethods == {"GET", "HEAD", "POST"}

TimestampParams == {<< >>, <<"1">>}

PagingParams ==
    {<<(<< >>), (<< >>)>>, <<(<<"1">>), (<<"1">>)>>, <<(<<"-", "1">>), (<< >>)>>}

HttpRequests ==
    {HttpRequest(method, ts, pg[1], pg[2], method = "GET" /\ ts = << >>) :
        method \in HttpMethods, ts \in TimestampParams, pg \in PagingParams}

Next ==
    \/ New
    \/ ProdBuild
    \/ ProdQuit
    \/ ApplyRecv
    \/ ApplyStore
    \/ ApplyQuit
    \/ Close
    \/ \E req \in Requests : Route(req)
    \/ Get
    \/ \E req \in Requests : Do(req)

Spec == Init /\ [][Next]_vars

\* The routing core serving the introspection endpoint.
HttpNext ==
    \/ New
    \/ ProdBuild
    \/ ProdQuit
    \/ ApplyRecv
    \/ ApplyStore
    \/ ApplyQuit
    \/ Close
    \/ \E req \in HttpRequests : ServeHTTP(req)
    \/ ServeHTTPRespond

HttpSpec == Init /\ [][HttpNext]_vars

\* ------------------------------------------- one request after another
\* Largest number of valid routes of the table being listed.
MaxRoutes == 3

\* The routes such a table lists, in order.
RouteNames == <<"r1", "r2", "r3", "r4", "r5">>

PageLists == {SubSeq(RouteNames, 1, n) : n \in 0..MaxRoutes}

\* The values of the timestamp, offset and limit parameters of the requests:
\* absent, decimal numbers up to the largest int and beyond, signed, padded
\* and not numeric.
PageTimestamps == {<< >>, <<"0">>, <<"1">>, <<"0", "1">>}

PageOffsets ==
    {<< >>, <<"0">>, <<"1">>, <<"2">>, <<"4">>, FormatInt(MaxInt),
     <<"-", "1">>, <<"x">>}

PageLimits ==
    {<< >>, <<"0">>, <<"1">>, <<"2">>, FormatInt(MaxInt), FormatInt(MaxInt + 1),
     <<"-", "1">>, <<"1", "x">>}

PageMethods == {"GET", "HEAD", "POST", "DELETE"}

PageRequests ==
    {HttpRequest(method, ts, offset, limit, offset = << >>) :
        method \in PageMethods, ts \in PageTimestamps,
        offset \in PageOffsets, limit \in PageLimits}

\* The routing after New, or after the first table of the pipeline has been
\* stored, with no update under way.
PageInit ==
    /\ constructed = TRUE
    /\ \E t \in Times :
         /\ clock = t
         /\ \/ /\ routeTable = InitialTable(t)
               /\ built = 0
               /\ handed = << >>
               /\ published = <<0>>
            \/ /\ \E routes \in PageLists : routeTable = MakeTable(1, routes, t)
               /\ built = 1
               /\ handed = <<1>>
               /\ published = <<0, 1>>
    /\ quit = "open"
    /\ panicked = FALSE
    /\ prodPc = "idle"
    /\ prodRt = NoTable
    /\ applyPc = "select"
    /\ applyRt = NoTable
    /\ rdObs = NoGen
    /\ handle = NoHandle
    /\ pinned = NoAnswers
    /\ result = NoResult
    /\ httpPc = "idle"
    /\ httpReq = NoRequest
    /\ httpRt = NoTable
    /\ resp = NoResponse
    /\ earlier = NoEarlier
    /\ flow = NoFlow
    /\ plug = NoPlug
    /\ lastAct = "init"

\* One request is made and answered.
PageNext ==
    \/ lastAct = "init" /\ \E req \in PageRequests : ServeHTTP(req)
    \/ ServeHTTPRespond

PageSpec == PageInit /\ [][PageNext]_vars

\* Go's select takes one of its ready cases at random, so a case that is ready
\* again and again is taken (strong fairness of the quit case); a goroutine
\* that can run is scheduled (weak fairness of the Store).  Nothing is assumed
\* of the update pipeline or of the callers.
FairSpec ==
    /\ Init
    /\ [][Next]_vars
    /\ WF_vars(ApplyStore)
    /\ SF_vars(ApplyQuit)

\* ------------------------------------------------------ the flow id filter

\* Longest flow id of the model, incoming or generated.
MaxIdLen == 2

\* Characters a flow id may be made of, and two it may not (the '<' and the
\* blank of invalidFlowId).
FlowIdChars == {"A", "7", "-"}
OtherChars == {"<", " "}

\* Header values a request can arrive with; << >> is a request without the
\* flow id header.
HeaderValues ==
    UNION {[1..n -> FlowIdChars \cup OtherChars] : n \in 0..MaxIdLen}

\* isValid: a flow id is a non-empty string of flow id characters.
isValid(id) == id # << >> /\ \A i \in 1..Len(id) : id[i] \in FlowIdChars

\* The ids the generator can hand out for a request: valid, of the filter's
\* length, and new, that is not the id the request arrived with.
NewFlowIds(length, incoming) == [1..length -> FlowIdChars] \ {incoming}

FlowInit ==
    /\ RoutingInit
    /\ plug = NoPlug
    /\ \E incoming \in HeaderValues :
          flow = [pc |-> "new", reuse |-> FALSE, length |-> 0,
                  incoming |-> incoming, header |-> incoming]

\* MakeFilter(filterName, FilterConfig{reuse, length}).
MakeFilter(reuse, length) ==
    /\ flow.pc = "new"
    /\ flow' = [flow EXCEPT !.pc = "made", !.reuse = reuse,
                            !.length = length]
    /\ lastAct' = "MakeFilter"
    /\ UNCHANGED <<routingVars, plug>>

\* A filter that takes over whatever id the request arrived with.
RequestKeepAny ==
    /\ flow.pc = "made"
    /\ \E id \in NewFlowIds(flow.length, flow.incoming) :
          flow' = [flow EXCEPT
                     !.pc = "done",
                     !.header = IF flow.reuse /\ flow.incoming # << >>
                                  THEN flow.incoming ELSE id]
    /\ lastAct' = "Request"
    /\ UNCHANGED <<routingVars, plug>>

\* Request(ctx): keeps the incoming flow id when the filter reuses ids and
\* the id is valid, and sets a generated one otherwise.
Request ==
    /\ flow.pc = "made"
    /\ \E id \in NewFlowIds(flow.length, flow.incoming) :
          flow' = [flow EXCEPT
                     !.pc = "done",
                     !.header = IF flow.reuse /\ isValid(flow.incoming)
                                  THEN flow.incoming ELSE id]
    /\ lastAct' = "Request"
    /\ UNCHANGED <<routingVars, plug>>

FlowNext ==
    \/ \E reuse \in BOOLEAN, length \in 1..MaxIdLen : MakeFilter(reuse, length)
    \/ Request

FlowSpec == FlowInit /\ [][FlowNext]_vars

\* ------------------------------------------------------ findAndLoadPlugins

\* Most plugins the walk of the plugin directories finds.
MaxPlugins == 2

\* Names of the .so files that may be there, and a configured name that is
\* in no plugin directory.
PluginNames == <<"p1", "p2", "p3">>
Ghost == "ghost"

\* An entry of MultiPlugins, FilterPlugins, PredicatePlugins or
\* DataClientPlugins: the plugin's name, then its arguments.
PluginEntry(name, args) == <<name>> \o args
NameOf(entry) == entry[1]
ArgsOf(entry) == Tail(entry)

\* The lists one stage can be configured with: none, one plugin with an
\* argument, and a name that is not found followed by one plugin twice.
PluginLists ==
    {<< >>,
     <<PluginEntry("p1", <<"arg">>)>>,
     <<PluginEntry(Ghost, << >>), PluginEntry("p2", << >>),
       PluginEntry("p2", <<"arg">>)>>}

\* The explicit stages, in the order of the code.
Stages ==
    <<"MultiPlugins", "FilterPlugins", "PredicatePlugins",
      "DataClientPlugins">>

StageNo(pc) == CHOOSE k \in 1..Len(Stages) : Stages[k] = pc

\* What a load hands back: a filters.Spec, routing.PredicateSpec or
\* routing.DataClient of the plugin, or nil.
Nil == [plugin |-> "", kind |-> "nil"]
LoadedSpec(name, kind) == [plugin |-> name, kind |-> kind]
Loaded(name, kind, out) == IF out = "spec" THEN LoadedSpec(name, kind) ELSE Nil

\* The last load of the function: stage, plugin, arguments, and what it came
\* to for the filter, the predicate and the data client, one of
\*   "-"         not asked for
\*   "notfound"  name not in found
\*   "open"      plugin.Open failed
\*   "absent"    Lookup of the symbol failed (auto-discovery only)
\*   "err"       the load returned an error
\*   "nil"       the load returned nil and no error
\*   "spec"      the load returned a value and no error
NoLoad == [stage |-> "none", name |-> "", args |-> << >>,
           out |-> <<"-", "-", "-">>]

\* Outcomes of LoadFilterPlugin, LoadPredicatePlugin, LoadDataClientPlugin.
LoadOutcomes == {"err", "nil", "spec"}

\* Outcomes of LoadMultiPlugin: an error, or three values each of which may
\* be nil.
MultiOutcomes ==
    {<<"err", "err", "err">>} \cup [1..3 -> {"nil", "spec"}]

\* Outcomes of InitFilter, InitPredicate and InitDataClient of one plugin in
\* the auto-discovery stage: every outcome of every symbol, an error at the
\* first, the second and the third load, and nil from each of them.
AutoOutcomes ==
    {<<"absent", "absent", "absent">>,
     <<"spec", "spec", "spec">>,
     <<"spec", "absent", "absent">>,
     <<"err", "spec", "spec">>,
     <<"spec", "err", "spec">>,
     <<"absent", "spec", "err">>,
     <<"nil", "absent", "spec">>,
     <<"absent", "nil", "nil">>}

\* findAndLoadPlugins is called with Options o.
PluginInit ==
    /\ RoutingInit
    /\ flow = NoFlow
    /\ \E multi \in PluginLists, fltr \in PluginLists, pred \in PluginLists,
          dc \in PluginLists :
          plug = [pc |-> "walk", i |-> 0,
                  o |-> [MultiPlugins |-> multi, FilterPlugins |-> fltr,
                         PredicatePlugins |-> pred,
                         DataClientPlugins |-> dc],
                  found |-> {}, discovered |-> {}, todo |-> {},
                  CustomFilters |-> << >>, CustomPredicates |-> << >>,
                  CustomDataClients |-> << >>,
                  last |-> NoLoad, loaded |-> {}, failed |-> {},
                  attempted |-> {},
                  processed |-> [s \in {Stages[k] : k \in 1..Len(Stages)}
                                   |-> 0]]

\* The first stage from the k-th on that has an entry; Len(Stages) + 1 if
\* there is none.
RECURSIVE FirstStage(_, _)
FirstStage(o, k) ==
    IF k > Len(Stages) THEN k
    ELSE IF o[Stages[k]] # << >> THEN k
    ELSE FirstStage(o, k + 1)

\* p goes on with the loops from the k-th stage: the first entry of the next
\* configured stage, or the range over what is left in found.
Proceed(p, k) ==
    LET k2 == FirstStage(p.o, k) IN
    IF k2 <= Len(Stages) THEN [p EXCEPT !.pc = Stages[k2], !.i = 1]
    ELSE IF p.found = {} THEN [p EXCEPT !.pc = "done", !.i = 0]
    ELSE [p EXCEPT !.pc = "auto", !.i = 0, !.todo = p.found]

\* continue: the next entry of the stage's list, or the next loop.
Continue(p) ==
    IF p.i < Len(p.o[p.pc])
      THEN [p EXCEPT !.i = p.i + 1]
      ELSE Proceed(p, StageNo(p.pc) + 1)

\* History: the load of this step.
Tried(p, stage, entry, out) ==
    [p EXCEPT !.last = [stage |-> stage, name |-> NameOf(entry),
                        args |-> ArgsOf(entry), out |-> out],
              !.processed[stage] = @ + 1,
              !.failed = IF "err" \in {out[j] : j \in 1..3}
                           THEN @ \cup {NameOf(entry)} ELSE @]

\* delete(found, name) after a load without error.
Delete(p, name) ==
    [p EXCEPT !.found = @ \ {name}, !.loaded = @ \cup {name}]

\* Lines 15-30: the walk fills found with the names of the .so files.
Walk(names) ==
    /\ plug.pc = "walk"
    /\ plug' = Proceed([plug EXCEPT !.found = names, !.discovered = names], 1)
    /\ lastAct' = "Walk"
    /\ UNCHANGED <<routingVars, flow>>

\* The loop over o.MultiPlugins without the delete of line 54.
LoadMultiPluginsKeepFound(out) ==
    /\ plug.pc = "MultiPlugins"
    /\ LET entry == plug.o.MultiPlugins[plug.i]
           name == NameOf(entry)
       IN IF name \notin plug.found
            THEN plug' = Continue(Tried(plug, "MultiPlugins", entry,
                                        <<"notfound", "notfound", "notfound">>))
          ELSE IF out[1] = "err"
            THEN plug' = Continue(Tried(plug, "MultiPlugins", entry, out))
          ELSE plug' = Continue(
                 [Tried(plug, "MultiPlugins", entry, out) EXCEPT
                    !.loaded = @ \cup {name},
                    !.CustomFilters =
                        IF out[1] = "spec"
                          THEN Append(@, LoadedSpec(name, "filter")) ELSE @,
                    !.CustomPredicates =
                        IF out[2] = "spec"
                          THEN Append(@, LoadedSpec(name, "predicate")) ELSE @,
                    !.CustomDataClients =
                        IF out[3] = "spec"
                          THEN Append(@, LoadedSpec(name, "dataclient")) ELSE @])
    /\ lastAct' = "LoadMultiPlugins"
    /\ UNCHANGED <<routingVars, flow>>

\* One iteration of the loop over o.MultiPlugins, lines 32-55.
LoadMultiPlugins(out) ==
    /\ plug.pc = "MultiPlugins"
    /\ LET entry == plug.o.MultiPlugins[plug.i]
           name == NameOf(entry)
       IN IF name \notin plug.found
            THEN plug' = Continue(Tried(plug, "MultiPlugins", entry,
                                        <<"notfound", "notfound", "notfound">>))
          ELSE IF out[1] = "err"
            THEN plug' = Continue(Tried(plug, "MultiPlugins", entry, out))
          ELSE plug' = Continue(Delete(
                 [Tried(plug, "MultiPlugins", entry, out) EXCEPT
                    !.CustomFilters =
                        IF out[1] = "spec"
                          THEN Append(@, LoadedSpec(name, "filter")) ELSE @,
                    !.CustomPredicates =
                        IF out[2] = "spec"
                          THEN Append(@, LoadedSpec(name, "predicate")) ELSE @,
                    !.CustomDataClients =
                        IF out[3] = "spec"
                          THEN Append(@, LoadedSpec(name, "dataclient")) ELSE @],
                 name))
    /\ lastAct' = "LoadMultiPlugins"
    /\ UNCHANGED <<routingVars, flow>>

\* The loop over o.FilterPlugins with a return in the place of the continue
\* of line 67.
LoadFilterPluginsReturn(out) ==
    /\ plug.pc = "FilterPlugins"
    /\ LET entry == plug.o.FilterPlugins[plug.i]
           name == NameOf(entry)
       IN IF name \notin plug.found
            THEN plug' = Continue(Tried(plug, "FilterPlugins", entry,
                                        <<"notfound", "-", "-">>))
          ELSE IF out = "err"
            THEN plug' = [Tried(plug, "FilterPlugins", entry,
                                <<"err", "-", "-">>) EXCEPT !.pc = "done"]
          ELSE IF out = "nil"
            THEN plug' = [Tried(plug, "FilterPlugins", entry,
                                <<"nil", "-", "-">>) EXCEPT
                            !.CustomFilters = Append(@, Nil),
                            !.pc = "panic"]
          ELSE plug' = Continue(Delete(
                 [Tried(plug, "FilterPlugins", entry, <<"spec", "-", "-">>)
                    EXCEPT !.CustomFilters =
                             Append(@, LoadedSpec(name, "filter"))],
                 name))
    /\ lastAct' = "LoadFilterPlugins"
    /\ UNCHANGED <<routingVars, flow>>

\* One iteration of the loop over o.FilterPlugins, lines 57-72.  A nil spec
\* is appended at line 69 and spec.Name() at line 70 panics.
LoadFilterPlugins(out) ==
    /\ plug.pc = "FilterPlugins"
    /\ LET entry == plug.o.FilterPlugins[plug.i]
           name == NameOf(entry)
       IN IF name \notin plug.found
            THEN plug' = Continue(Tried(plug, "FilterPlugins", entry,
                                        <<"notfound", "-", "-">>))
          ELSE IF out = "err"
            THEN plug' = Continue(Tried(plug, "FilterPlugins", entry,
                                        <<"err", "-", "-">>))
          ELSE IF out = "nil"
            THEN plug' = [Tried(plug, "FilterPlugins", entry,
                                <<"nil", "-", "-">>) EXCEPT
                            !.CustomFilters = Append(@, Nil),
                            !.pc = "panic"]
          ELSE plug' = Continue(Delete(
                 [Tried(plug, "FilterPlugins", entry, <<"spec", "-", "-">>)
                    EXCEPT !.CustomFilters =
                             Append(@, LoadedSpec(name, "filter"))],
                 name))
    /\ lastAct' = "LoadFilterPlugins"
    /\ UNCHANGED <<routingVars, flow>>

\* One iteration of the loop over o.PredicatePlugins, lines 74-89.  A nil
\* spec is appended at line 86 and spec.Name() at line 87 panics.
LoadPredicatePlugins(out) ==
    /\ plug.pc = "PredicatePlugins"
    /\ LET entry == plug.o.PredicatePlugins[plug.i]
           name == NameOf(entry)
       IN IF name \notin plug.found
            THEN plug' = Continue(Tried(plug, "PredicatePlugins", entry,
                                        <<"-", "notfound", "-">>))
          ELSE IF out = "err"
            THEN plug' = Continue(Tried(plug, "PredicatePlugins", entry,
                                        <<"-", "err", "-">>))
          ELSE IF out = "nil"
            THEN plug' = [Tried(plug, "PredicatePlugins", entry,
                                <<"-", "nil", "-">>) EXCEPT
                            !.CustomPredicates = Append(@, Nil),
                            !.pc = "panic"]
          ELSE plug' = Continue(Delete(
                 [Tried(plug, "PredicatePlugins", entry, <<"-", "spec", "-">>)
                    EXCEPT !.CustomPredicates =
                             Append(@, LoadedSpec(name, "predicate"))],
                 name))
    /\ lastAct' = "LoadPredicatePlugins"
    /\ UNCHANGED <<routingVars, flow>>

\* One iteration of the loop over o.DataClientPlugins, lines 91-106: what
\* the load returned without error is appended, nil or not.
LoadDataClientPlugins(out) ==
    /\ plug.pc = "DataClientPlugins"
    /\ LET entry == plug.o.DataClientPlugins[plug.i]
           name == NameOf(entry)
       IN IF name \notin plug.found
            THEN plug' = Continue(Tried(plug, "DataClientPlugins", entry,
                                        <<"-", "-", "notfound">>))
          ELSE IF out = "err"
            THEN plug' = Continue(Tried(plug, "DataClientPlugins", entry,
                                        <<"-", "-", "err">>))
          ELSE plug' = Continue(Delete(
                 [Tried(plug, "DataClientPlugins", entry, <<"-", "-", out>>)
                    EXCEPT !.CustomDataClients =
                             Append(@, Loaded(name, "dataclient", out))],
                 name))
    /\ lastAct' = "LoadDataClientPlugins"
    /\ UNCHANGED <<routingVars, flow>>

\* What the three lookups of one auto-discovered plugin come to, lines
\* 116-145: an error of one load skips the symbols after it.
AutoOut(fltr, pred, dc) ==
    <<fltr,
      IF fltr = "err" THEN "-" ELSE pred,
      IF fltr = "err" \/ pred = "err" THEN "-" ELSE dc>>

\* One iteration of the range over found, lines 108-146; the order of a
\* range over a map is not defined.  The loads get []string{}.
AutoLoad(name, open, fltr, pred, dc) ==
    /\ plug.pc = "auto"
    /\ name \in plug.todo
    /\ LET out == IF open THEN AutoOut(fltr, pred, dc)
                          ELSE <<"open", "open", "open">>
           tried == [plug EXCEPT
                       !.last = [stage |-> "auto", name |-> name,
                                 args |-> << >>, out |-> out],
                       !.attempted = @ \cup {name},
                       !.todo = @ \ {name},
                       !.CustomFilters =
                           IF out[1] \in {"nil", "spec"}
                             THEN Append(@, Loaded(name, "filter", out[1]))
                             ELSE @,
                       !.CustomPredicates =
                           IF out[2] \in {"nil", "spec"}
                             THEN Append(@, Loaded(name, "predicate", out[2]))
                             ELSE @,
                       !.CustomDataClients =
                           IF out[3] \in {"nil", "spec"}
                             THEN Append(@, Loaded(name, "dataclient", out[3]))
                             ELSE @]
       IN plug' = IF tried.todo = {} THEN [tried EXCEPT !.pc = "done"]
                                     ELSE tried
    /\ lastAct' = "AutoLoad"
    /\ UNCHANGED <<routingVars, flow>>

\* What the walk can find: the first n of the plugin names.
FoundSets ==
    {{PluginNames[k] : k \in 1..n} : n \in 0..MaxPlugins}

PluginNext ==
    \/ \E names \in FoundSets : Walk(names)
    \/ \E out \in MultiOutcomes : LoadMultiPlugins(out)
    \/ \E out \in LoadOutcomes : LoadFilterPlugins(out)
    \/ \E out \in LoadOutcomes : LoadPredicatePlugins(out)
    \/ \E out \in LoadOutcomes : LoadDataClientPlugins(out)
    \/ \E name \in plug.todo, open \in BOOLEAN, syms \in AutoOutcomes :
          AutoLoad(name, open, syms[1], syms[2], syms[3])

PluginSpec == PluginInit /\ [][PluginNext]_vars

\* ------------------------------------------------------------ properties
Last(seq) == seq[Len(seq)]

Range(seq) == {seq[i] : i \in 1..Len(seq)}

\* The position of the first publication of generation g.
PubIndex(seq, g) ==
    CHOOSE i \in 1..Len(seq) : seq[i] = g /\ \A j \in 1..(i - 1) : seq[j] # g

IsPrefix(a, b) == Len(a) <= Len(b) /\ SubSeq(b, 1, Len(a)) = a

NoDuplicates(seq) == \A i, j \in 1..Len(seq) : seq[i] = seq[j] => i = j

\* C1: the generations a reader gets from successive loads of the cell never
\* go back in publication order.
C1_LoadsNeverGoBack ==
    [][(rdObs # NoGen /\ rdObs' # NoGen)
         => PubIndex(published', rdObs') >= PubIndex(published', rdObs)]_vars

\* A load that gave a later generation than the first one, after two
\* publications.
C1_Witness ==
    /\ lastAct = "Route"
    /\ rdObs = 2
    /\ handle.held
    /\ published = <<0, 1, 2>>

\* C2: RouteLookup.Do answers what Routing.Route answered for the same
\* request at the instant Get loaded the cell, whatever was published since.
C2_DoAnswersFromPinned ==
    lastAct = "Do" => result.route = pinned[result.req]

\* A Do whose answer differs from what the current table gives.
C2_Witness ==
    /\ lastAct = "Do"
    /\ result.route # match(routeTable.m, result.req)
    /\ Len(published) >= 3

\* The generations stored by the applying goroutine: all but New's.
StoredByPipeline == IF published = << >> THEN << >> ELSE Tail(published)

\* C3: the tables stored after the initial one are the tables handed over,
\* each once and in the order of the hand-over, with at most the one just
\* received still to be stored; and each table handed over is eventually
\* stored.
C3_HandedOverAreStored ==
    /\ [](/\ IsPrefix(StoredByPipeline, handed)
          /\ Len(handed) - Len(StoredByPipeline) = (IF applyPc = "store" THEN 1 ELSE 0)
          /\ NoDuplicates(published))
    /\ \A g \in 1..MaxGen : (g \in Range(handed)) ~> (g \in Range(published))

\* Two tables handed over and stored, the second one after Close.
C3_Witness ==
    /\ constructed
    /\ quit = "closed"
    /\ lastAct = "ApplyStore"
    /\ handed = <<1, 2>>
    /\ published = <<0, 1, 2>>

\* C4 (as claimed): a Route call made after a hand-over has completed is
\* answered from the table handed over last.
C4_RouteSeesHandedOver ==
    (lastAct = "Route" /\ handed # << >>) => rdObs = Last(handed)

\* C5 (as claimed): once quit is closed the cell is not stored into.
C5_NoStoreAfterClose ==
    [][quit = "closed" => routeTable' = routeTable]_vars

C7_CellSetAndInitiallyEmpty ==
    constructed =>
        /\ routeTable # NoTable
        /\ routeTable.gen # NoGen
        /\ Len(published) = 1 =>
              /\ routeTable.gen = 0
              /\ len(routeTable.validRoutes) = 0
              /\ \A req \in Requests : match(routeTable.m, req) = NoRoute
              /\ lastAct = "Route" => result.route = NoRoute

\* A Route answered from the initial table while a received table waits to
\* be stored.
C7_Witness ==
    /\ lastAct = "Route"
    /\ Len(published) = 1
    /\ applyPc = "store"
    /\ result.route = NoRoute

\* C8: the cell changes only in New's initial store, made before the
\* goroutines run, and in the Store of the applying goroutine.
C8_OnlyNewAndApplyWrite ==
    [][/\ routeTable' # routeTable => lastAct' \in {"New", "ApplyStore"}
       /\ lastAct' = "New" => (applyPc = "none" /\ prodPc = "none")
       /\ lastAct' \in {"Route", "Get", "Do", "Close", "ServeHTTP",
                        "ServeHTTPRespond"}
            => (routeTable' = routeTable /\ published' = published)]_vars

\* Close in a state whose cell holds a table of the pipeline.
C8_Witness ==
    /\ lastAct = "Close"
    /\ routeTable.gen = 1
    /\ handle.held
    /\ applyPc = "store"

\* C9: Route and Get can always take their step, whatever the applying
\* goroutine is doing, and a Route is answered from the table published last.
C9_LookupsNeverWait ==
    constructed =>
        /\ \A req \in Requests : ENABLED Route(req)
        /\ ENABLED Get
        /\ lastAct \in {"Route", "Get"} => rdObs = Last(published)

\* A Route after the applying goroutine has exited, answered from the last
\* table of the pipeline.
C9_Witness ==
    /\ applyPc = "done"
    /\ lastAct = "Route"
    /\ rdObs = 2
    /\ result.route # NoRoute

\* The page of the routes list r for offset and limit.
PageOf(r, offset, limit) ==
    LET n == Len(r)
        lo == IF offset < n THEN offset ELSE n
        hi == IF offset + limit < n THEN offset + limit ELSE n
    IN  [i \in 1..(hi - lo) |-> r[lo + i]]

\* C10: a 200 response carries the Unix second of creation and the number
\* of valid routes of the one table the handler loaded, and a GET lists the
\* page cut from that same table.
C10_HeadersFromOneGeneration ==
    resp.status = 200 =>
        /\ resp.from.gen \in Range(published)
        /\ resp.xTimestamp = FormatInt(resp.from.created \div 2)
        /\ Atoi(resp.xCount).val = Len(resp.from.validRoutes.elems)
        /\ ~Atoi(resp.xCount).err
        /\ httpReq.method = "GET" =>
              /\ resp.listing
              /\ ~resp.page.isNil
              /\ resp.page.elems =
                   PageOf(resp.from.validRoutes.elems,
                          extractParam(httpReq.offset, 0).val,
                          extractParam(httpReq.limit, defaultRouteListingLimit).val)
        /\ httpReq.method = "HEAD" => ~resp.listing

\* A GET answered from a table that was replaced while the request was
\* served, with a page shorter than X-Count.
C10_Witness ==
    /\ lastAct = "ServeHTTPRespond"
    /\ resp.status = 200
    /\ httpReq.method = "GET"
    /\ resp.from.gen # routeTable.gen
    /\ Len(resp.from.validRoutes.elems) # Len(routeTable.validRoutes.elems)
    /\ Len(resp.page.elems) < Len(resp.from.validRoutes.elems)

\* The request just answered was not refused for its method.
Answered == lastAct = "ServeHTTPRespond"

\* C11: a GET or HEAD whose timestamp parameter is not empty and is not the
\* decimal Unix second of creation of the loaded table gets 400 without
\* X-Timestamp, X-Count and listing; with the parameter absent, empty or
\* equal, a 400 can only come from offset or limit.
C11_TimestampMismatchIs400 ==
    Answered =>
        IF httpReq.ts # << >> /\ httpReq.ts # FormatInt(resp.from.created \div 2)
          THEN /\ resp.status = 400
               /\ resp.xTimestamp = << >>
               /\ resp.xCount = << >>
               /\ ~resp.listing
          ELSE resp.status = 400 =>
                 /\ httpReq.method = "GET"
                 /\ \/ extractParam(httpReq.offset, 0).err
                    \/ extractParam(httpReq.limit, defaultRouteListingLimit).err

\* A HEAD refused for its timestamp, of a table created in second 1.
C11_Witness ==
    /\ Answered
    /\ httpReq.method = "HEAD"
    /\ httpReq.ts = <<"0">>
    /\ resp.from.created \div 2 = 1
    /\ resp.status = 400

\* A parameter value that is present and is not a non-negative integer:
\* not an optionally signed string of digits, or below zero.
IsDecimal(str) ==
    LET body == IF str # << >> /\ str[1] \in {"+", "-"} THEN Tail(str) ELSE str
    IN  body # << >> /\ \A i \in 1..Len(body) : IsDigit(body[i])

NotNonNegative(str) ==
    /\ str # << >>
    /\ \/ ~IsDecimal(str)
       \/ str[1] = "-" /\ DigitsVal(Tail(str)) > 0

\* The timestamp parameter lets the request through.
TimestampPasses == httpReq.ts = << >> \/ httpReq.ts = FormatInt(resp.from.created \div 2)

\* C12 (as claimed): a GET or HEAD whose offset or limit is present and is
\* not a non-negative integer gets 400; an absent offset counts as 0 and an
\* absent limit as 1024.
C12_BadPagingIs400 ==
    Answered =>
        /\ (NotNonNegative(httpReq.offset) \/ NotNonNegative(httpReq.limit))
              => resp.status = 400
        /\ (resp.status = 200 /\ httpReq.method = "GET" /\ httpReq.offset = << >>
              /\ httpReq.limit = << >>)
              => resp.page.elems = PageOf(resp.from.validRoutes.elems, 0, 1024)

\* C13 (as claimed): for non-negative offset and limit the page of a GET is
\* the routes from min(offset, n) up to min(offset + limit, n), in order, and
\* is not nil.
C13_PageIsTheClampedRange ==
    (/\ Answered
     /\ httpReq.method = "GET"
     /\ TimestampPasses
     /\ ~extractParam(httpReq.offset, 0).err
     /\ ~extractParam(httpReq.limit, defaultRouteListingLimit).err)
    => /\ resp.status = 200
       /\ ~resp.page.isNil
       /\ resp.page.elems =
            PageOf(resp.from.validRoutes.elems,
                   extractParam(httpReq.offset, 0).val,
                   extractParam(httpReq.limit, defaultRouteListingLimit).val)

\* C14: a method other than GET and HEAD gets 405 with no X-Timestamp, no
\* X-Count and no listing, whatever the parameters; a HEAD has no listing,
\* and its 200 carries both headers.
C14_MethodNotAllowed ==
    /\ (httpReq.method # "" /\ httpReq.method \notin {"GET", "HEAD"})
          => /\ resp.status = 405
             /\ resp.xTimestamp = << >>
             /\ resp.xCount = << >>
             /\ ~resp.listing
             /\ resp.page = NilSlice
             /\ httpPc = "idle"
    /\ (Answered /\ httpReq.method = "HEAD")
          => /\ ~resp.listing
             /\ resp.page = NilSlice
             /\ resp.status = 200 => (resp.xTimestamp # << >> /\ resp.xCount # << >>)

\* A DELETE with valid paging parameters, refused.
C14_Witness ==
    /\ lastAct = "ServeHTTP"
    /\ httpReq.method = "DELETE"
    /\ httpReq.offset = <<"1">>
    /\ httpReq.limit = <<"2">>
    /\ len(routeTable.validRoutes) = 3
    /\ resp.status = 405

\* C17 (as claimed): for the offset and limit extractParam returns, slice
\* never takes r[offset:end] with bounds out of order, so no GET panics.
C17_SliceNeverPanics ==
    /\ Answered => resp.status # -1
    /\ httpPc = "loaded" =>
         ~slice(httpRt.validRoutes, extractParam(httpReq.offset, 0).val,
                extractParam(httpReq.limit, defaultRouteListingLimit).val).panic

\* C18: the first Close closes quit without a panic; a Close with quit
\* already closed panics and changes nothing else, whatever the goroutines
\* have done.
C18_SecondClosePanics ==
    [][lastAct' = "Close" =>
         IF quit = "closed"
           THEN panicked' /\ quit' = "closed"
           ELSE quit' = "closed" /\ panicked' = panicked /\ ~panicked]_vars

\* A second Close after both goroutines have exited.
C18_Witness ==
    /\ lastAct = "Close"
    /\ panicked
    /\ applyPc = "done"
    /\ prodPc = "done"

\* C16 (as claimed): two 200 responses to GETs that carried the same
\* timestamp value list pages of the same table.
C16_SameTimestampSameTable ==
    (/\ resp.status = 200
     /\ httpReq.method = "GET"
     /\ httpReq.ts # << >>
     /\ earlier.ts = httpReq.ts)
    => resp.from.gen = earlier.gen

IsFailure(v) == v \in {"notfound", "open", "err"}

\* The record of a load in which a plugin was opened.
IsAttempt(load) ==
    load.stage # "none" /\ "notfound" \notin Range(load.out)

\* The entries a stage is configured with have all been processed.
AllProcessed(p) ==
    /\ \A k \in 1..Len(Stages) : p.processed[Stages[k]] = Len(p.o[Stages[k]])
    /\ p.attempted = p.discovered \ p.loaded

\* C19: the auto-discovery stage attempts exactly the discovered plugins that
\* no explicit stage loaded without error; a plugin an explicit stage loaded
\* is out of found and no later load opens it; a plugin whose explicit load
\* failed stays in found and is attempted by the auto-discovery stage, with
\* empty arguments.
C19_AutoStageTakesTheRest ==
    [][/\ plug'.loaded \cap plug'.found = {}
       /\ plug'.attempted \subseteq plug'.discovered \ plug'.loaded
       /\ (plug'.failed \ plug'.loaded) \subseteq plug'.found
       /\ IsAttempt(plug'.last) => plug'.last.name \notin plug.loaded
       /\ plug'.last.stage = "auto" =>
             /\ plug'.last.args = << >>
             /\ plug'.last.name \notin plug.attempted
       /\ plug'.pc = "done" =>
             plug'.attempted = plug'.discovered \ plug'.loaded]_vars

\* The function has returned: p1 was loaded by an explicit stage and left
\* alone afterwards, the explicit load of p2 failed and the auto-discovery
\* stage attempted p2 and nothing else.
C19_Witness ==
    /\ plug.pc = "done"
    /\ plug.discovered = {"p1", "p2"}
    /\ plug.loaded = {"p1"}
    /\ "p2" \in plug.failed
    /\ plug.attempted = {"p2"}

\* C20: a load that fails (name not found, plugin not opened, error returned)
\* appends nothing for that load and the function goes on with the next
\* entry or plugin, so that at its return every configured entry and every
\* plugin left in found has been processed; the three lists only grow at
\* their end.
C20_FailuresAreIsolated ==
    [][/\ IsPrefix(plug.CustomFilters, plug'.CustomFilters)
       /\ IsPrefix(plug.CustomPredicates, plug'.CustomPredicates)
       /\ IsPrefix(plug.CustomDataClients, plug'.CustomDataClients)
       /\ IsFailure(plug'.last.out[1]) =>
             plug'.CustomFilters = plug.CustomFilters
       /\ IsFailure(plug'.last.out[2]) =>
             plug'.CustomPredicates = plug.CustomPredicates
       /\ IsFailure(plug'.last.out[3]) =>
             plug'.CustomDataClients = plug.CustomDataClients
       /\ (/\ plug'.last.stage \in Range(Stages)
           /\ \E j \in 1..3 : IsFailure(plug'.last.out[j])) =>
             /\ plug'.CustomFilters = plug.CustomFilters
             /\ plug'.CustomPredicates = plug.CustomPredicates
             /\ plug'.CustomDataClients = plug.CustomDataClients
             /\ plug' = Continue([plug EXCEPT !.last = plug'.last,
                                              !.processed = plug'.processed,
                                              !.failed = plug'.failed])
       /\ (\E j \in 1..3 : IsFailure(plug'.last.out[j])) =>
             plug'.pc # "panic"
       /\ plug'.pc = "done" => AllProcessed(plug')]_vars

\* The function has returned after a name that was not found, a load that
\* returned an error, and loads after them that appended to each list.
C20_Witness ==
    /\ plug.pc = "done"
    /\ plug.o.FilterPlugins # << >>
    /\ NameOf(plug.o.FilterPlugins[1]) = Ghost
    /\ "p2" \in plug.failed
    /\ "p2" \in plug.loaded
    /\ plug.CustomFilters # << >>
    /\ plug.CustomPredicates # << >>
    /\ plug.CustomDataClients # << >>
    /\ plug.attempted = {"p1"}

\* C21: findAndLoadPlugins never calls a method of a nil spec, and when it
\* has returned none of CustomFilters, CustomPredicates and CustomDataClients
\* holds a nil entry, whatever the init functions of the plugins return.
C21_NoNilSpecs ==
    /\ plug.pc # "panic"
    /\ plug.pc = "done" =>
          /\ Nil \notin Range(plug.CustomFilters)
          /\ Nil \notin Range(plug.CustomPredicates)
          /\ Nil \notin Range(plug.CustomDataClients)

====
